---------------------------- MODULE Spec2Model ----------------------------
(***************************************************************************)
(* Model of the multi-level noise engine of Noise/Source/noise.cpp.        *)
(*                                                                         *)
(* Numbers.  The engine computes on doubles; the model computes on exact   *)
(* fixed-point integers.  A plane coordinate is an integer number of       *)
(* 1/Cell of a grid cell, an elevation an integer number of elevation      *)
(* units.  Generated points are multiples of 16 units, so that halving a   *)
(* point and the Catmull-Rom midpoint (a division by 16) are exact.        *)
(* 32-bit signed arithmetic is modelled at its real width.                 *)
(***************************************************************************)
EXTENDS Integers, Sequences, FiniteSets, TLC

VARIABLES
    pc,                 \* lifecycle of the engine object
    m_seed, m_eps,
    m_displayPoints, m_displaySegments, m_displayGrid,
    m_noiseTopLeft, m_noiseBottomRight,
    m_perlinTopLeft, m_perlinBottomRight,
    m_pointCache,
    calls               \* one evaluate() activation per caller thread

\* The engine object, as the methods below read it
this ==
    [m_seed |-> m_seed, m_eps |-> m_eps,
     m_displayPoints |-> m_displayPoints, m_displaySegments |-> m_displaySegments,
     m_displayGrid |-> m_displayGrid,
     m_noiseTopLeft |-> m_noiseTopLeft, m_noiseBottomRight |-> m_noiseBottomRight,
     m_perlinTopLeft |-> m_perlinTopLeft, m_perlinBottomRight |-> m_perlinBottomRight,
     m_pointCache |-> m_pointCache]

config == <<m_seed, m_eps, m_displayPoints, m_displaySegments, m_displayGrid,
            m_noiseTopLeft, m_noiseBottomRight, m_perlinTopLeft, m_perlinBottomRight>>

vars == <<pc, config, m_pointCache, calls>>

----------------------------------------------------------------------------
(* Bounds and units *)

\* eps and the jitter are counted in 1/JitterSteps of a cell
JitterSteps == 8

\* number of distinct variates the uniform distribution can return
UniformSteps == 4

\* number of distinct values the control function can return
PerlinLevels == 6

\* plane units per grid cell
Cell == 16 * JitterSteps

\* elevation 1.0 in elevation units
ZOne == 16 * PerlinLevels

\* numeric_limits<int>::max()
INT_MAX == 2147483647

\* size of the point cache along x (noise.h defines the engine's own size)
CACHE_X == 4

\* size of the point cache along y
CACHE_Y == 6

\* An array as a value held in a local variable: f itself, with its elements
\* computed once
Value(f) == f @@ << >>

\* The same for an array of arrays
Grid(f) == Value([i \in DOMAIN f |-> Value(f[i])])

Point2D(x, y) == [x |-> x, y |-> y]

Point3D(x, y, z) == [x |-> x, y |-> y, z |-> z]

Segment3D(a, b) == [a |-> a, b |-> b]

----------------------------------------------------------------------------
(* 32-bit signed arithmetic of GenerateSeedNoise, on 16-bit limbs *)

Limb == 256 * 256

HalfLimb == Limb \div 2

\* The exact value of 541*i + 79*j + seed as hi * 2^16 + lo, 0 <= lo < 2^16
SeedSum(n, i, j) ==
    LET lo == 541 * (i % Limb) + 79 * (j % Limb) + (n.m_seed % Limb)
        hi == 541 * (i \div Limb) + 79 * (j \div Limb) + (n.m_seed \div Limb)
    IN  [hi |-> hi + (lo \div Limb), lo |-> lo % Limb]

\* The sum leaves the range of a 32-bit signed int
SeedOverflows(n, i, j) ==
    LET s == SeedSum(n, i, j) IN s.hi < -HalfLimb \/ s.hi >= HalfLimb

\* What the wrapping build computes for the sum
SeedSumInt32(n, i, j) ==
    LET s == SeedSum(n, i, j)
    IN  (((s.hi + HalfLimb) % Limb) - HalfLimb) * Limb + s.lo

\* C++ operator % on int: the remainder has the sign of the dividend
CppRem(v, m) ==
    IF v >= 0 THEN v % m
    ELSE IF v < -m THEN -((-(v + m)) % m)
    ELSE -((-v) % m)

GenerateSeedNoise(n, i, j) == CppRem(SeedSumInt32(n, i, j), INT_MAX)

----------------------------------------------------------------------------
(* Point generator *)

\* The generator's state after seeding
RandomGenerator(seed) == seed % 251

\* One step of the generator
Advance(s) == (s * 37 + 11) % 251

\* uniform_real_distribution<double>(a, b): a + (b - a) * u, u in [0, 1)
Uniform(a, b, s) == a + ((b - a) * (s % UniformSteps)) \div UniformSteps

\* A generator that draws the offsets from the whole cell
GeneratePointWholeCell(n, x, y) ==
    LET s1 == Advance(RandomGenerator(GenerateSeedNoise(n, x, y)))
        s2 == Advance(s1)
        px == Uniform(0, JitterSteps, s1)
        py == Uniform(0, JitterSteps, s2)
    IN  Point2D(Cell * x + 16 * px, Cell * y + 16 * py)

\* GeneratePoint: the generator is seeded with the cell's seed and draws the
\* two offsets from [eps, 1 - eps], x first
GeneratePoint(n, x, y) ==
    LET s1 == Advance(RandomGenerator(GenerateSeedNoise(n, x, y)))
        s2 == Advance(s1)
        px == Uniform(n.m_eps, JitterSteps - n.m_eps, s1)
        py == Uniform(n.m_eps, JitterSteps - n.m_eps, s2)
    IN  Point2D(Cell * x + 16 * px, Cell * y + 16 * py)

----------------------------------------------------------------------------
(* Point cache *)

\* CACHE_X / 2 of the source; -CACHE_X / 2 is its negation (C++ division truncates)
HalfX == CACHE_X \div 2

HalfY == CACHE_Y \div 2

\* A fill that generates the point of cell (y, x) for the entry of cell (x, y)
InitPointCacheSwapped(n) ==
    [ix \in 0 .. CACHE_X - 1 |->
        IF ix < 2 * HalfX
        THEN [iy \in 0 .. CACHE_Y - 1 |->
                IF iy < 2 * HalfY
                THEN GeneratePoint(n, iy - HalfY, ix - HalfX)
                ELSE Point2D(0, 0)]
        ELSE << >>]

\* The cache after InitPointCache: row x + CACHE_X/2 is resized and filled for
\* x in -CACHE_X/2 .. CACHE_X/2 - 1; for an odd size the last row stays empty
\* and the last column holds default points
InitPointCache(n) ==
    [ix \in 0 .. CACHE_X - 1 |->
        IF ix < 2 * HalfX
        THEN [iy \in 0 .. CACHE_Y - 1 |->
                IF iy < 2 * HalfY
                THEN GeneratePoint(n, ix - HalfX, iy - HalfY)
                ELSE Point2D(0, 0)]
        ELSE << >>]

InCacheWindow(x, y) ==
    x >= -HalfX /\ x < HalfX /\ y >= -HalfY /\ y < HalfY

GeneratePointCached(n, x, y) ==
    IF InCacheWindow(x, y)
    THEN n.m_pointCache[x + HalfX][y + HalfY]
    ELSE GeneratePoint(n, x, y)

GenerateNeighboringPoints5(n, cx, cy) ==
    [i \in 0 .. 4 |-> [j \in 0 .. 4 |-> GeneratePointCached(n, cx + j - 2, cy + i - 2)]]

GenerateNeighboringPoints7(n, cx, cy) ==
    [i \in 0 .. 6 |-> [j \in 0 .. 6 |-> GeneratePointCached(n, cx + j - 3, cy + i - 3)]]

----------------------------------------------------------------------------
(* Elevation sampler *)

\* Remap(v, a, b, c, d) = c + (v - a) * (d - c) / (b - a), for b > a; the
\* quotient and the remainder of v - a by b - a are scaled separately, which
\* is the same number and keeps the intermediate products small
Remap(v, a, b, c, d) ==
    LET q == (v - a) \div (b - a)
        r == (v - a) % (b - a)
    IN  c + q * (d - c) + (r * (d - c)) \div (b - a)

\* The control function: deterministic, total, with values in [-ZOne, ZOne]
Perlin(x, y) ==
    LET u == x % 1009
        v == y % 1009
    IN  -ZOne + 32 * (((u * 7 + v * 13 + u * v) % 1009) % PerlinLevels)

ComputeElevations(n, points) ==
    [i \in 0 .. 6 |-> [j \in 0 .. 6 |->
        LET x == Remap(points[i][j].x, n.m_noiseTopLeft.x, n.m_noiseBottomRight.x,
                       n.m_perlinTopLeft.x, n.m_perlinBottomRight.x)
            y == Remap(points[i][j].y, n.m_noiseTopLeft.y, n.m_noiseBottomRight.y,
                       n.m_perlinTopLeft.y, n.m_perlinBottomRight.y)
        IN  (Perlin(x, y) + ZOne) \div 2]]

----------------------------------------------------------------------------
(* Segment graph builder *)

\* numeric_limits<double>::max(): above every elevation
DBL_MAX == INT_MAX

\* A scan whose inner loop starts at l = j: the column to the left is skipped
ScanOrderNoLeftColumn(i, j) ==
    [s \in 1 .. 6 |-> <<i - 1 + ((s - 1) \div 2), j + ((s - 1) % 2)>>]

\* The 3x3 neighbourhood of (i, j) in the order of the loops on k and l
\* (lines 149-151)
ScanOrder(i, j) ==
    [s \in 1 .. 9 |-> <<i - 1 + ((s - 1) \div 3), j - 1 + ((s - 1) % 3)>>]

\* One iteration of the inner loop body: keep the last value seen at or
\* below the running minimum
LowerOrEqual(elevations, low, kl) ==
    IF elevations[kl[1]][kl[2]] <= low.elevation
    THEN [elevation |-> elevations[kl[1]][kl[2]], i |-> kl[1], j |-> kl[2]]
    ELSE low

\* One iteration of the inner loop body (lines 153-158)
Lower(elevations, low, kl) ==
    IF elevations[kl[1]][kl[2]] < low.elevation
    THEN [elevation |-> elevations[kl[1]][kl[2]], i |-> kl[1], j |-> kl[2]]
    ELSE low

RECURSIVE ScanFrom(_, _, _, _)
ScanFrom(elevations, order, s, low) ==
    IF s > Len(order) THEN low
    ELSE ScanFrom(elevations, order, s + 1, Lower(elevations, low, order[s]))

\* lowestNeighborElevation, lowestNeighborI, lowestNeighborJ after the scan
LowestNeighbor(elevations, i, j) ==
    ScanFrom(elevations, ScanOrder(i, j), 1, [elevation |-> DBL_MAX, i |-> i, j |-> j])

\* The segment of interior cell (i, j) of the 7x7 window
CellSegment(points, elevations, i, j) ==
    LET low == LowestNeighbor(elevations, i, j)
        a == Point3D(points[i][j].x, points[i][j].y, elevations[i][j])
        b == Point3D(points[low.i][low.j].x, points[low.i][low.j].y, low.elevation)
    IN  Segment3D(a, b)

GenerateSegments(n, points) ==
    LET elevations == Grid(ComputeElevations(n, points))
    IN  [s \in 0 .. 24 |-> CellSegment(points, elevations, 1 + (s \div 5), 1 + (s % 5))]

----------------------------------------------------------------------------
(* Spline subdivider *)

Add3(p, q) == Point3D(p.x + q.x, p.y + q.y, p.z + q.z)

Scale3(k, p) == Point3D(k * p.x, k * p.y, k * p.z)

Div3(p, k) == Point3D(p.x \div k, p.y \div k, p.z \div k)

ProjectionZ(p) == Point2D(p.x, p.y)

MidPoint(s) == Div3(Add3(s.a, s.b), 2)

Sub3(p, q) == Point3D(p.x - q.x, p.y - q.y, p.z - q.z)

\* Catmull-Rom spline through p1 and p2 at parameter 0.5:
\* (-p0 + 9*p1 + 9*p2 - p3) / 16, computed relative to p1 (the same number)
SubdivideCatmullRomSpline(p0, p1, p2, p3) ==
    Add3(p1, Div3(Add3(Add3(Scale3(-1, Sub3(p0, p1)), Scale3(9, Sub3(p2, p1))),
                       Scale3(-1, Sub3(p3, p1))), 16))

\* Indices of the segments counted by numberSegmentEndingInA
EndingInA(segments, curr) ==
    {t \in DOMAIN segments : segments[t].a # segments[t].b /\ segments[t].b = curr.a}

\* Indices of the segments counted by numberStartingInB (the else-if branch)
StartingInB(segments, curr) ==
    {t \in DOMAIN segments : /\ segments[t].a # segments[t].b
                             /\ segments[t].b # curr.a
                             /\ segments[t].a = curr.b}

Last(S) == CHOOSE t \in S : \A u \in S : u <= t

\* A choice of branch without the else-if of line 213
BranchNoFakeEnd(nA, nB) ==
    IF nA = 1 /\ nB = 1 THEN "both"
    ELSE IF nA # 1 /\ nB = 1 THEN "fakeStart"
    ELSE "none"

\* Which of the branches of lines 204-217 is taken for the two counts
Branch(nA, nB) ==
    IF nA = 1 /\ nB = 1 THEN "both"
    ELSE IF nA # 1 /\ nB = 1 THEN "fakeStart"
    ELSE IF nA = 1 /\ nB # 1 THEN "fakeEnd"
    ELSE "none"

\* The branch that segment i takes
SplineBranch(segments, i) ==
    Branch(Cardinality(EndingInA(segments, segments[i])),
           Cardinality(StartingInB(segments, segments[i])))

\* One iteration of the loop of lines 178-222: the midpoint of segment i
SegmentMidPoint(segments, i) ==
    LET curr == segments[i]
        endingInA == EndingInA(segments, curr)
        startingInB == StartingInB(segments, curr)
        branch == Branch(Cardinality(endingInA), Cardinality(startingInB))
        lastEndingInA == segments[Last(endingInA)]
        lastStartingInB == segments[Last(startingInB)]
    IN  CASE branch = "both" ->
               SubdivideCatmullRomSpline(lastEndingInA.a, curr.a, curr.b, lastStartingInB.b)
          [] branch = "fakeStart" ->
               SubdivideCatmullRomSpline(Add3(Scale3(2, curr.a), Scale3(-1, curr.b)),
                                         curr.a, curr.b, lastStartingInB.b)
          [] branch = "fakeEnd" ->
               SubdivideCatmullRomSpline(lastEndingInA.a, curr.a, curr.b,
                                         Add3(Scale3(2, curr.b), Scale3(-1, curr.a)))
          [] OTHER -> MidPoint(curr)

\* The three outputs of SubdivideSegments
SubdivideSegments(segments) ==
    LET mid == Value([i \in 0 .. 24 |-> SegmentMidPoint(segments, i)])
    IN  [segmentsBegin |-> Value([i \in 0 .. 24 |-> Segment3D(segments[i].a, mid[i])]),
         midPoints |-> Grid([r \in 0 .. 4 |-> [c \in 0 .. 4 |-> ProjectionZ(mid[5 * r + c])]]),
         segmentsEnd |-> Value([i \in 0 .. 24 |-> Segment3D(mid[i], segments[i].b)])]

----------------------------------------------------------------------------
(* Quadrant refiner *)

\* floor(2 * (x - cx)) for a cell origin cx (in cells) and a coordinate x (in units)
GetSubQuadrant(cx, cy, x, y) ==
    <<(2 * (x - Cell * cx)) \div Cell, (2 * (y - Cell * cy)) \div Cell>>

\* A replacement that stores at [l][k], row and column exchanged
ReplaceSubPointTransposed(sub, cx, cy, quadrant, points, i, j) ==
    LET q == GetSubQuadrant(cx, cy, points[i][j].x, points[i][j].y)
        k == 2 - quadrant[2] + q[2]
        l == 2 - quadrant[1] + q[1]
    IN  IF k >= 0 /\ k < 5 /\ l >= 0 /\ l < 5
        THEN [sub EXCEPT ![l][k] = points[i][j]]
        ELSE sub

\* One iteration of the replacement loop (lines 550-559) for level-1 point (i, j)
ReplaceSubPoint(sub, cx, cy, quadrant, points, i, j) ==
    LET q == GetSubQuadrant(cx, cy, points[i][j].x, points[i][j].y)
        k == 2 - quadrant[2] + q[2]
        l == 2 - quadrant[1] + q[1]
    IN  IF k >= 0 /\ k < 5 /\ l >= 0 /\ l < 5
        THEN [sub EXCEPT ![k][l] = points[i][j]]
        ELSE sub

RECURSIVE ReplaceFrom(_, _, _, _, _, _)
ReplaceFrom(sub, cx, cy, quadrant, points, s) ==
    IF s > 48 THEN sub
    ELSE ReplaceFrom(ReplaceSubPoint(sub, cx, cy, quadrant, points, s \div 7, s % 7),
                     cx, cy, quadrant, points, s + 1)

\* The level-2 neighbourhood before the replacement: generated at doubled
\* resolution around (2*cx + quadrantX, 2*cy + quadrantY), coordinates halved
HalvedSubPoints(n, cx, cy, quadrant) ==
    LET fine == GenerateNeighboringPoints5(n, 2 * cx + quadrant[1], 2 * cy + quadrant[2])
    IN  [i \in 0 .. 4 |-> [j \in 0 .. 4 |-> Point2D(fine[i][j].x \div 2, fine[i][j].y \div 2)]]

GenerateNeighboringSubPoints(n, cx, cy, x, y, points) ==
    LET quadrant == GetSubQuadrant(cx, cy, x, y)
    IN  ReplaceFrom(HalvedSubPoints(n, cx, cy, quadrant), cx, cy, quadrant, points, 0)

----------------------------------------------------------------------------
(* Planar geometry on doubles: distances are counted in 1/16 of a plane     *)
(* unit, segment parameters in 1/UOne; NaN is the double that every        *)
(* comparison rejects                                                      *)

NaN == -INT_MAX

\* parameter 1.0 of a position along a segment
UOne == 4 * 256

Abs(v) == IF v < 0 THEN -v ELSE v

\* Newton's iteration for floor(sqrt(v)), started at or above it
RECURSIVE SqrtFrom(_, _)
SqrtFrom(v, x) ==
    LET next == (x + v \div x) \div 2
    IN  IF next >= x THEN x ELSE SqrtFrom(v, next)

\* floor(16 * sqrt(dx^2 + dy^2)): the norm of (dx, dy) in 1/16 of a unit
Norm(dx, dy) ==
    IF dx = 0 /\ dy = 0 THEN 0
    ELSE SqrtFrom(256 * (dx * dx + dy * dy), 16 * (Abs(dx) + Abs(dy)))

NormSq(dx, dy) == dx * dx + dy * dy

\* a < b on doubles
Less(a, b) == a # NaN /\ b # NaN /\ a < b

\* std::max(a, b) == (a < b) ? b : a
Max(a, b) == IF Less(a, b) THEN b ELSE a

\* dist(p, q), in 1/16 of a unit
Dist(p, q) ==
    IF p.x = NaN \/ p.y = NaN \/ q.x = NaN \/ q.y = NaN THEN NaN
    ELSE Norm(p.x - q.x, p.y - q.y)

\* length of a planar segment, in 1/16 of a unit
Length(s) == Dist(s.a, s.b)

ProjectionZ2(s) == Segment3D(ProjectionZ(s.a), ProjectionZ(s.b))

\* pointLineProjection: dot(p - a, b - a) / |b - a|^2, 0/0 on a zero-length segment
PointLineProjection(p, s) ==
    IF p.x = NaN \/ p.y = NaN \/ s.a.x = NaN \/ s.a.y = NaN \/ s.b.x = NaN \/ s.b.y = NaN
    THEN NaN
    ELSE LET l2 == NormSq(s.b.x - s.a.x, s.b.y - s.a.y)
         IN  IF l2 = 0 THEN NaN
             ELSE (((p.x - s.a.x) * (s.b.x - s.a.x) + (p.y - s.a.y) * (s.b.y - s.a.y)) * UOne)
                      \div l2

\* clamp(u, lo, hi) == (u < lo) ? lo : (hi < u) ? hi : u
Clamp(u, lo, hi) == IF Less(u, lo) THEN lo ELSE IF Less(hi, u) THEN hi ELSE u

\* a + u * (b - a) on one coordinate
Lerp1(a, b, u) ==
    IF a = NaN \/ b = NaN \/ u = NaN THEN NaN ELSE a + ((b - a) * u) \div UOne

Lerp3(s, u) == Point3D(Lerp1(s.a.x, s.b.x, u), Lerp1(s.a.y, s.b.y, u), Lerp1(s.a.z, s.b.z, u))

\* Point-to-segment planar distance; to the point itself on a zero-length segment
DistToLineSegment(p, s) ==
    IF s.a.x = NaN \/ s.a.y = NaN \/ s.b.x = NaN \/ s.b.y = NaN THEN NaN
    ELSE IF s.a.x = s.b.x /\ s.a.y = s.b.y THEN Dist(p, s.a)
    ELSE LET u == Clamp(PointLineProjection(p, s), 0, UOne)
         IN  Dist(p, Point2D(Lerp1(s.a.x, s.b.x, u), Lerp1(s.a.y, s.b.y, u)))

\* A nearest-segment loop (for instance lines 237-247) entered with near =
\* [dist, segment]: the first segment of segs at the least distance wins,
\* when that distance is below the one the loop was entered with
NearestIn(p, segs, near) ==
    LET better == {c \in {[t |-> t, dist |-> DistToLineSegment(p, ProjectionZ2(segs[t]))] :
                              t \in DOMAIN segs} : Less(c.dist, near.dist)}
        best == CHOOSE c \in better :
                    \A o \in better : c.dist < o.dist \/ (c.dist = o.dist /\ c.t <= o.t)
    IN  IF better = {} THEN near ELSE [dist |-> best.dist, segment |-> segs[best.t]]

\* Segment3D(): the default segment
NoSegment == Segment3D(Point3D(0, 0, 0), Point3D(0, 0, 0))

NoNearest == [dist |-> DBL_MAX, segment |-> NoSegment]

----------------------------------------------------------------------------
(* Sub-segment connector *)

\* The segment of interior refined point (i, j)
SubSegment(points, segmentsBegin, segmentsEnd, i, j) ==
    LET p == points[i][j]
        near == NearestIn(p, segmentsEnd, NearestIn(p, segmentsBegin, NoNearest))
        u0 == Clamp(PointLineProjection(p, ProjectionZ2(near.segment)), 0, UOne)
        v == u0 + (near.dist * UOne) \div Length(ProjectionZ2(near.segment))
        u == IF Less(0, u0) /\ Less(u0, UOne)
             THEN (IF v > UOne THEN UOne ELSE v)
             ELSE u0
        segmentEnd == Lerp3(near.segment, u)
        segmentStart == Point3D(p.x, p.y, segmentEnd.z)
    IN  Segment3D(segmentStart, segmentEnd)

GenerateSubSegments(points, segmentsBegin, segmentsEnd) ==
    [s \in 0 .. 8 |-> SubSegment(points, segmentsBegin, segmentsEnd, 1 + (s \div 3), 1 + (s % 3))]

----------------------------------------------------------------------------
(* Field evaluator: values are counted in 1/One *)

One == 16 * Cell * ZOne

\* a radius given as 1/den of a cell, in 1/16 of a unit
Radius(den) == (16 * Cell) \div den

ComputeColorPoint(x, y, point, radius) ==
    IF Less(Dist(Point2D(x, y), point), radius) THEN One ELSE 0

\* ComputeColorPoints5 and ComputeColorPoints7: the maximum over the grid
ComputeColorPoints(x, y, points, radius) ==
    IF \E i \in DOMAIN points : \E j \in DOMAIN points[i] :
           ComputeColorPoint(x, y, points[i][j], radius) = One
    THEN One ELSE 0

\* ComputeColorSegment9 and ComputeColorSegment25
ComputeColorSegment(x, y, segments, radius) ==
    IF \E t \in DOMAIN segments :
           Less(DistToLineSegment(Point2D(x, y), ProjectionZ2(segments[t])), radius)
    THEN One ELSE 0

\* deltaX and deltaY are given in units; x - floor(x) is x % Cell
ComputeColorGrid(x, y, deltaX, deltaY, radius) ==
    IF 16 * Abs((x % Cell) - deltaX) < radius \/ 16 * Abs((y % Cell) - deltaY) < radius
    THEN One ELSE 0

ComputeColor(n, x, y, points, midPoints, segmentsBegin, segmentsEnd) ==
    LET v0 == 0
        v1 == IF n.m_displayPoints
              THEN Max(Max(v0, ComputeColorPoints(x, y, points, Radius(16))),
                       ComputeColorPoints(x, y, midPoints, Radius(32)))
              ELSE v0
        v2 == IF n.m_displaySegments
              THEN Max(Max(v1, ComputeColorSegment(x, y, segmentsBegin, Radius(64))),
                       ComputeColorSegment(x, y, segmentsEnd, Radius(64)))
              ELSE v1
    IN  IF n.m_displayGrid
        THEN Max(v2, ComputeColorGrid(x, y, 0, 0, Radius(128)))
        ELSE v2

ComputeColorSub(n, x, y, points, segments) ==
    LET v0 == 0
        v1 == IF n.m_displayPoints
              THEN Max(v0, ComputeColorPoints(x, y, points, Radius(32)))
              ELSE v0
        v2 == IF n.m_displaySegments
              THEN Max(v1, ComputeColorSegment(x, y, segments, Radius(128)))
              ELSE v1
    IN  IF n.m_displayGrid
        THEN Max(v2, ComputeColorGrid(x, y, Cell \div 2, Cell \div 2, Radius(256)))
        ELSE v2

\* nearestSegmentDistance + elevation, as a value in 1/One
ComputeColorWorley(x, y, segmentsBegin, segmentsEnd, subSegments) ==
    LET p == Point2D(x, y)
        near == NearestIn(p, subSegments,
                    NearestIn(p, segmentsEnd, NearestIn(p, segmentsBegin, NoNearest)))
        u == PointLineProjection(p, ProjectionZ2(near.segment))
        elevation == Lerp1(near.segment.a.z, near.segment.b.z, Clamp(u, 0, UOne))
    IN  IF elevation = NaN THEN NaN
        ELSE near.dist * ZOne + elevation * 16 * Cell

----------------------------------------------------------------------------
(* Configurations and queries of the model *)

Seeds == {0, INT_MAX}

\* eps, in 1/JitterSteps
EpsChoices == {-2, 0, 1, 3, JitterSteps \div 2, JitterSteps - 2}

ValidEps(eps) == 0 < eps /\ 2 * eps < JitterSteps

\* A rectangle with corners given in cells
Rect(x0, y0, x1, y1) ==
    [topLeft |-> Point2D(Cell * x0, Cell * y0), bottomRight |-> Point2D(Cell * x1, Cell * y1)]

ValidRect(topLeft, bottomRight) == topLeft.x < bottomRight.x /\ topLeft.y < bottomRight.y

\* The two set-ups of main.cpp (TerrainImage, LichtenbergFigureImage): noise
\* rectangle, control function rectangle, display flags
Setups ==
    { [noise |-> Rect(0, 0, 4, 4),
       perlin |-> [topLeft |-> Point2D(0, 0), bottomRight |-> Point2D(Cell \div 2, Cell \div 2)],
       displayPoints |-> FALSE, displaySegments |-> FALSE, displayGrid |-> FALSE],
      [noise |-> Rect(-2, -2, 2, 2),
       perlin |-> Rect(-1, -1, 1, 1),
       displayPoints |-> FALSE, displaySegments |-> TRUE, displayGrid |-> FALSE] }

\* Set-ups with a degenerate rectangle: zero area, badly ordered corners
DegenerateSetups ==
    { [noise |-> Rect(0, 0, 0, 4),
       perlin |-> Rect(-1, -1, 1, 1),
       displayPoints |-> FALSE, displaySegments |-> FALSE, displayGrid |-> FALSE],
      [noise |-> Rect(4, 4, 0, 0),
       perlin |-> Rect(-1, -1, 1, 1),
       displayPoints |-> FALSE, displaySegments |-> TRUE, displayGrid |-> FALSE],
      [noise |-> Rect(0, 0, 4, 4),
       perlin |-> Rect(0, 0, 0, 0),
       displayPoints |-> TRUE, displaySegments |-> TRUE, displayGrid |-> TRUE] }

ValidConfiguration ==
    /\ ValidEps(m_eps)
    /\ ValidRect(m_noiseTopLeft, m_noiseBottomRight)
    /\ ValidRect(m_perlinTopLeft, m_perlinBottomRight)

\* The last cell i for which 541 * i still fits a 32-bit int
FarCell == INT_MAX \div 541

\* The point of cell (cx, cy) at offset (ox/4, oy/4) inside the cell
InCell(cx, cy, ox, oy) == Point2D(Cell * cx + ox * (Cell \div 4), Cell * cy + oy * (Cell \div 4))

\* Queries in adjacent cells near the origin, one on a cell corner, one far
\* away; the four quadrants of a cell all occur
QueryPoints ==
    { InCell(0, 0, 1, 3), InCell(1, 0, 3, 1), InCell(2, 2, 0, 0), InCell(FarCell, 0, 2, 2) }

Threads == {"t1", "t2"}

----------------------------------------------------------------------------
(* The engine and its callers *)

None == << >>

IdleCall ==
    [pc |-> "idle", x |-> 0, y |-> 0,
     points |-> None, segments |-> None,
     segmentsBegin |-> None, midPoints |-> None, segmentsEnd |-> None,
     subPoints |-> None, subSegments |-> None, result |-> 0]

\* floor(x), in cells
Floor(x) == x \div Cell

\* The level-2 cell at the centre of the refined neighbourhood of a query
SubCell(x, y) ==
    LET q == GetSubQuadrant(Floor(x), Floor(y), x, y)
    IN  <<2 * Floor(x) + q[1], 2 * Floor(y) + q[2]>>

\* Cells of the w x w window around (cx, cy) that GeneratePointCached generates
GeneratedCells(cx, cy, w) ==
    {c \in ((cx - w) .. (cx + w)) \X ((cy - w) .. (cy + w)) : ~InCacheWindow(c[1], c[2])}

CacheCells == ((-HalfX) .. (HalfX - 1)) \X ((-HalfY) .. (HalfY - 1))

\* Undefined behaviour met when generating the points of these cells: signed
\* overflow in GenerateSeedNoise, or a distribution built with a > b.  A
\* build either goes on with the wrapped sum and a + (b - a) * u, or aborts
\* (-ftrapv, checked standard library)
Undefined(n, cells) ==
    \/ cells # {} /\ n.m_eps > JitterSteps - n.m_eps
    \/ {c \in cells : SeedOverflows(n, c[1], c[2])} # {}

\* Entry of the constructor body: the member initialisers have run
InitWith(epsSet, setups) ==
    /\ pc = "constructing"
    /\ m_seed \in Seeds
    /\ m_eps \in epsSet
    /\ \E s \in setups :
          /\ m_noiseTopLeft = s.noise.topLeft
          /\ m_noiseBottomRight = s.noise.bottomRight
          /\ m_perlinTopLeft = s.perlin.topLeft
          /\ m_perlinBottomRight = s.perlin.bottomRight
          /\ m_displayPoints = s.displayPoints
          /\ m_displaySegments = s.displaySegments
          /\ m_displayGrid = s.displayGrid
    /\ m_pointCache = None
    /\ calls = [t \in Threads |-> IdleCall]

\* Engines configured as the data model requires
Init == InitWith({e \in EpsChoices : ValidEps(e)}, Setups)

\* Every configuration the constructor can be called with
InitAnyConfig == InitWith(EpsChoices, Setups \cup DegenerateSetups)

\* Noise::Noise, body
Construct ==
    /\ pc = "constructing"
    /\ \/ pc' = "ready" /\ m_pointCache' = InitPointCache(this)
       \/ Undefined(this, CacheCells) /\ pc' = "aborted" /\ UNCHANGED m_pointCache
    /\ UNCHANGED <<config, calls>>

\* A lookup that memoizes the centre cell of the neighbourhood in the cache
CacheAfterLookupMemo(n, cx, cy) ==
    [n.m_pointCache EXCEPT ![cx % (2 * HalfX)][cy % (2 * HalfY)] = GeneratePoint(n, cx, cy)]

\* GeneratePointCached is a const method: the lookups of a neighbourhood
\* around (cx, cy) leave the cache as it is
CacheAfterLookup(n, cx, cy) == n.m_pointCache

\* A caller thread enters evaluate(x, y)
Call(t, q) ==
    /\ pc = "ready"
    /\ calls[t].pc \in {"idle", "done"}
    /\ calls' = [calls EXCEPT ![t] = [IdleCall EXCEPT !.pc = "points", !.x = q.x, !.y = q.y]]
    /\ UNCHANGED <<pc, config, m_pointCache>>

\* evaluate, lines 575-582: the level-1 points are looked up, then the
\* segments and their halves are computed from them
Level1(t) ==
    /\ pc = "ready"
    /\ calls[t].pc = "points"
    /\ LET cx == Floor(calls[t].x)
           cy == Floor(calls[t].y)
           points == Grid(GenerateNeighboringPoints7(this, cx, cy))
           segments == Value(GenerateSegments(this, points))
           out == SubdivideSegments(segments)
       IN  \/ /\ calls' = [calls EXCEPT ![t].pc = "subPoints",
                                        ![t].points = points,
                                        ![t].segments = segments,
                                        ![t].segmentsBegin = out.segmentsBegin,
                                        ![t].midPoints = out.midPoints,
                                        ![t].segmentsEnd = out.segmentsEnd]
              /\ m_pointCache' = CacheAfterLookup(this, cx, cy)
              /\ UNCHANGED pc
           \/ /\ Undefined(this, GeneratedCells(cx, cy, 3))
              /\ pc' = "aborted"
              /\ UNCHANGED <<calls, m_pointCache>>
    /\ UNCHANGED config

\* The value of lines 590-596 for the locals of a call
Color(n, c) ==
    Max(ComputeColorWorley(c.x, c.y, c.segmentsBegin, c.segmentsEnd, c.subSegments),
        Max(ComputeColor(n, c.x, c.y, c.points, c.midPoints, c.segmentsBegin, c.segmentsEnd),
            ComputeColorSub(n, c.x, c.y, c.subPoints, c.subSegments)))

\* evaluate, lines 585-596: the level-2 points are looked up, then the
\* sub-segments and the value are computed and the call returns
Level2(t) ==
    /\ pc = "ready"
    /\ calls[t].pc = "subPoints"
    /\ LET x == calls[t].x
           y == calls[t].y
           c == SubCell(x, y)
           subPoints == Grid(GenerateNeighboringSubPoints(this, Floor(x), Floor(y), x, y,
                                                          calls[t].points))
           subSegments == Value(GenerateSubSegments(subPoints, calls[t].segmentsBegin,
                                                    calls[t].segmentsEnd))
           locals == [calls[t] EXCEPT !.subPoints = subPoints, !.subSegments = subSegments]
       IN  \/ /\ calls' = [calls EXCEPT ![t] = [locals EXCEPT !.pc = "done",
                                                               !.result = Color(this, locals)]]
              /\ m_pointCache' = CacheAfterLookup(this, c[1], c[2])
              /\ UNCHANGED pc
           \/ /\ Undefined(this, GeneratedCells(c[1], c[2], 2))
              /\ pc' = "aborted"
              /\ UNCHANGED <<calls, m_pointCache>>
    /\ UNCHANGED config

\* evaluate(x, y) run from entry to return on engine n
Evaluate(n, x, y) ==
    LET cx == Floor(x)
        cy == Floor(y)
        points == Grid(GenerateNeighboringPoints7(n, cx, cy))
        segments == Value(GenerateSegments(n, points))
        halves == SubdivideSegments(segments)
        segmentsBegin == Value(halves.segmentsBegin)
        segmentsEnd == Value(halves.segmentsEnd)
        subPoints == Grid(GenerateNeighboringSubPoints(n, cx, cy, x, y, points))
        subSegments == Value(GenerateSubSegments(subPoints, segmentsBegin, segmentsEnd))
    IN  Color(n, [x |-> x, y |-> y, points |-> points,
                  segmentsBegin |-> segmentsBegin, midPoints |-> Grid(halves.midPoints),
                  segmentsEnd |-> segmentsEnd,
                  subPoints |-> subPoints, subSegments |-> subSegments])

Next ==
    \/ Construct
    \/ \E t \in Threads, q \in QueryPoints : Call(t, q)
    \/ \E t \in Threads : Level1(t)
    \/ \E t \in Threads : Level2(t)

Spec == Init /\ [][Next]_vars

\* Construction and the first call of a query, for every configuration
NextAnyConfig ==
    \/ Construct
    \/ \E t \in Threads, q \in QueryPoints : Call(t, q)

SpecAnyConfig == InitAnyConfig /\ [][NextAnyConfig]_vars

----------------------------------------------------------------------------
(* Properties *)

Started(c) == c.pc # "idle"

HasPoints(c) == c.pc \in {"subPoints", "done"}

HasSegments(c) == HasPoints(c)

HasHalves(c) == HasPoints(c)

HasSubPoints(c) == c.pc = "done"

\* The cell of position (i, j) of the 7x7 window of call c
WindowCell(c, i, j) == <<Floor(c.x) + j - 3, Floor(c.y) + i - 3>>

\* The level-2 cell of position (k, l) of the refined 5x5 window of call c
SubWindowCell(c, k, l) == <<SubCell(c.x, c.y)[1] + l - 2, SubCell(c.x, c.y)[2] + k - 2>>

\* Cells inside the cache window, on its boundary and outside it
CellsAroundCache == ((-HalfX - 2) .. (HalfX + 1)) \X ((-HalfY - 2) .. (HalfY + 1))

\* C1: cache transparency.  For every cell inside the cache window, on its
\* boundary or outside it, GeneratePointCached returns the point GeneratePoint
\* returns; every index read from the cache lies in the part InitPointCache
\* wrote and holds the point of that same cell; the 7x7 neighbourhood a query
\* read through the cache is the neighbourhood of directly generated points.
C1_CacheTransparency ==
    pc = "ready" =>
        /\ \A c \in CellsAroundCache :
              /\ GeneratePointCached(this, c[1], c[2]) = GeneratePoint(this, c[1], c[2])
              /\ InCacheWindow(c[1], c[2]) =>
                    /\ c[1] + HalfX \in 0 .. (2 * HalfX - 1)
                    /\ c[2] + HalfY \in 0 .. (2 * HalfY - 1)
                    /\ m_pointCache[c[1] + HalfX][c[2] + HalfY] = GeneratePoint(this, c[1], c[2])
        /\ \A t \in Threads : HasPoints(calls[t]) =>
              \A i, j \in 0 .. 6 :
                  LET c == WindowCell(calls[t], i, j)
                  IN  calls[t].points[i][j] = GeneratePoint(this, c[1], c[2])

\* A query has read a neighbourhood that holds the first and the last cached
\* column and the first column beyond the cache
C1_Witness ==
    /\ pc = "ready"
    /\ \E t \in Threads :
          /\ HasPoints(calls[t])
          /\ \A x \in {-HalfX, HalfX - 1, HalfX} :
                \E i, j \in 0 .. 6 : WindowCell(calls[t], i, j) = <<x, 0>>

InsideOwnCell(p, cell, eps) ==
    /\ Cell * cell[1] + 16 * eps <= p.x
    /\ p.x <= Cell * (cell[1] + 1) - 16 * eps
    /\ Cell * cell[2] + 16 * eps <= p.y
    /\ p.y <= Cell * (cell[2] + 1) - 16 * eps

\* C3: jitter containment.  Every point generated for a cell (the cached
\* ones, those of a query's 7x7 neighbourhood, those of the level-2 cells of
\* its refined neighbourhood) lies in its own cell, at least eps from each edge.
C3_JitterContainment ==
    pc = "ready" =>
        /\ \A c \in CacheCells : InsideOwnCell(GeneratePointCached(this, c[1], c[2]), c, m_eps)
        /\ \A t \in Threads :
              /\ HasPoints(calls[t]) =>
                    \A i, j \in 0 .. 6 :
                        InsideOwnCell(calls[t].points[i][j], WindowCell(calls[t], i, j), m_eps)
              /\ Started(calls[t]) =>
                    \A k, l \in 0 .. 4 :
                        LET c == SubWindowCell(calls[t], k, l)
                        IN  InsideOwnCell(GeneratePoint(this, c[1], c[2]), c, m_eps)

\* A query holds a point that lies exactly eps from an edge of its cell, and
\* one generated from a seed sum that left the 32-bit range
C3_Witness ==
    /\ pc = "ready"
    /\ \E t \in Threads :
          /\ HasPoints(calls[t])
          /\ \E i, j \in 0 .. 6 :
                calls[t].points[i][j].x = Cell * WindowCell(calls[t], i, j)[1] + 16 * m_eps
          /\ \E i, j \in 0 .. 6 :
                SeedOverflows(this, WindowCell(calls[t], i, j)[1], WindowCell(calls[t], i, j)[2])

\* C4: configuration validation.  An engine that finished construction, or
\* that a query has entered, has eps in (0, 0.5) and two rectangles of
\* non-zero area with well-ordered corners.
C4_Original ==
    (pc = "ready" \/ \E t \in Threads : Started(calls[t])) => ValidConfiguration

\* Cells a call addresses: its 7x7 window and its refined 5x5 window
AddressedCells(c) ==
    {WindowCell(c, i, j) : i, j \in 0 .. 6} \cup {SubWindowCell(c, k, l) : k, l \in 0 .. 4}

\* C9: seed derivation is total and exact.  For every cell a query addresses,
\* 541*i + 79*j + seed stays in the 32-bit signed range, so GenerateSeedNoise
\* is the remainder of the exact sum; with seed 0, GenerateSeedNoise(0, 0) = 0.
C9_Original ==
    /\ m_seed = 0 => GenerateSeedNoise(this, 0, 0) = 0
    /\ \A t \in Threads : Started(calls[t]) =>
          \A c \in AddressedCells(calls[t]) : ~SeedOverflows(this, c[1], c[2])

\* The 3x3 neighbourhood of position (i, j)
Around(i, j) == ((i - 1) .. (i + 1)) \X ((j - 1) .. (j + 1))

\* The position of least elevation around (i, j) that the scan by rows, and by
\* columns inside a row, meets first
FirstMinimum(elevations, i, j) ==
    CHOOSE m \in Around(i, j) :
        \A o \in Around(i, j) :
            \/ elevations[m[1]][m[2]] < elevations[o[1]][o[2]]
            \/ /\ elevations[m[1]][m[2]] = elevations[o[1]][o[2]]
               /\ (m[1] < o[1] \/ (m[1] = o[1] /\ m[2] <= o[2]))

At3D(points, elevations, m) ==
    Point3D(points[m[1]][m[2]].x, points[m[1]][m[2]].y, elevations[m[1]][m[2]])

\* C10: GenerateSegments emits 25 segments, the one of interior cell (i, j) at
\* index 5*(i-1) + (j-1); it starts at the cell's point with the cell's
\* elevation and ends at the first point of least elevation met by the scan
\* of the 3x3 neighbourhood (the earliest scanned one on a tie).
C10_SegmentsOfSteepestDescent ==
    \A t \in Threads : HasSegments(calls[t]) =>
        LET points == calls[t].points
            elevations == ComputeElevations(this, points)
        IN  /\ DOMAIN calls[t].segments = 0 .. 24
            /\ \A i, j \in 1 .. 5 :
                  LET seg == calls[t].segments[5 * (i - 1) + (j - 1)]
                  IN  /\ seg.a = At3D(points, elevations, <<i, j>>)
                      /\ seg.b = At3D(points, elevations, FirstMinimum(elevations, i, j))

\* Segments are built for a neighbourhood in which two cells tie for the
\* least elevation
C10_Witness ==
    \E t \in Threads :
        /\ HasSegments(calls[t])
        /\ LET elevations == ComputeElevations(this, calls[t].points)
           IN  \E i, j \in 1 .. 5 :
                  \E o \in Around(i, j) :
                      LET m == FirstMinimum(elevations, i, j)
                      IN  o # m /\ elevations[o[1]][o[2]] = elevations[m[1]][m[2]]

\* C6: local-minimum property.  The end of every non-zero-length segment of
\* interior cell (i, j) carries an elevation not above any of the 9 elevations
\* around (i, j), and is the point of one of these 9 cells with its elevation.
C6_LocalMinimum ==
    \A t \in Threads : HasSegments(calls[t]) =>
        LET points == calls[t].points
            elevations == ComputeElevations(this, points)
        IN  \A i, j \in 1 .. 5 :
                LET seg == calls[t].segments[5 * (i - 1) + (j - 1)]
                IN  seg.a # seg.b =>
                        /\ \A o \in Around(i, j) : seg.b.z <= elevations[o[1]][o[2]]
                        /\ \E o \in Around(i, j) : seg.b = At3D(points, elevations, o)

\* Segments are built and one of them leads to a lower cell of the left column
C6_Witness ==
    \E t \in Threads :
        /\ HasSegments(calls[t])
        /\ \E i, j \in 1 .. 5 :
              LET seg == calls[t].segments[5 * (i - 1) + (j - 1)]
              IN  /\ seg.a # seg.b
                  /\ seg.b.z < seg.a.z
                  /\ \E k \in (i - 1) .. (i + 1) :
                        ProjectionZ(seg.b) = calls[t].points[k][j - 1]

\* C5: a cell that is the steepest-descent minimum of its own neighbourhood
\* has a zero-length segment; a zero-length segment takes none of the spline
\* branches, its midpoint is its two end points and both halves have zero length.
C5_Original ==
    \A t \in Threads : HasHalves(calls[t]) =>
        LET elevations == ComputeElevations(this, calls[t].points)
        IN  \A i, j \in 1 .. 5 :
                LET s == 5 * (i - 1) + (j - 1)
                    seg == calls[t].segments[s]
                IN  /\ FirstMinimum(elevations, i, j) = <<i, j>> => seg.a = seg.b
                    /\ seg.a = seg.b =>
                          /\ SplineBranch(calls[t].segments, s) = "none"
                          /\ calls[t].segmentsBegin[s] = Segment3D(seg.a, seg.a)
                          /\ calls[t].segmentsEnd[s] = Segment3D(seg.a, seg.a)
                          /\ calls[t].midPoints[i - 1][j - 1] = ProjectionZ(seg.a)

\* The quadrant of the query of call c
Quadrant(c) == GetSubQuadrant(Floor(c.x), Floor(c.y), c.x, c.y)

\* The refined position <<k, l>> that the quadrant address of point p names
Address(c, p) ==
    LET q == GetSubQuadrant(Floor(c.x), Floor(c.y), p.x, p.y)
    IN  <<2 - Quadrant(c)[2] + q[2], 2 - Quadrant(c)[1] + q[1]>>

\* Positions of the 7x7 neighbourhood whose point is addressed inside the refined window
Claiming(c) ==
    {ij \in (0 .. 6) \X (0 .. 6) : Address(c, c.points[ij[1]][ij[2]]) \in (0 .. 4) \X (0 .. 4)}

\* C7: boundary consistency.  Every level-1 point whose quadrant address
\* falls in the refined 5x5 window is found, unchanged, at that address; every
\* other refined position holds the halved generated point of its level-2
\* cell; no refined position is claimed by two level-1 points.
C7_BoundaryConsistency ==
    \A t \in Threads : HasSubPoints(calls[t]) =>
        LET c == calls[t]
        IN  /\ \A ij \in Claiming(c) :
                  LET p == c.points[ij[1]][ij[2]]
                  IN  c.subPoints[Address(c, p)[1]][Address(c, p)[2]] = p
            /\ \A k, l \in 0 .. 4 :
                  (\A ij \in Claiming(c) : Address(c, c.points[ij[1]][ij[2]]) # <<k, l>>) =>
                      LET g == GeneratePoint(this, SubWindowCell(c, k, l)[1], SubWindowCell(c, k, l)[2])
                      IN  c.subPoints[k][l] = Point2D(g.x \div 2, g.y \div 2)
            /\ \A ij, uv \in Claiming(c) :
                  Address(c, c.points[ij[1]][ij[2]]) = Address(c, c.points[uv[1]][uv[2]]) => ij = uv

\* A refined neighbourhood is built in which some positions are taken by
\* level-1 points, off the diagonal too, and others keep their level-2 point
C7_Witness ==
    \E t \in Threads :
        /\ HasSubPoints(calls[t])
        /\ \E ij \in Claiming(calls[t]) :
              LET a == Address(calls[t], calls[t].points[ij[1]][ij[2]]) IN a[1] # a[2]
        /\ \E k, l \in 0 .. 4 :
              \A ij \in Claiming(calls[t]) :
                  Address(calls[t], calls[t].points[ij[1]][ij[2]]) # <<k, l>>

\* The cell of the segment of index s of call c
SegmentCell(c, s) == WindowCell(c, 1 + (s \div 5), 1 + (s % 5))

AdjacentCells(c, d) ==
    LET dx == Floor(c.x) - Floor(d.x)
        dy == Floor(c.y) - Floor(d.y)
    IN  dx * dx + dy * dy = 1

\* C8: seam continuity.  For two queries in adjacent cells, every grid cell
\* in the interior 5x5 window of both has the same segment, the same midpoint
\* and the same begin- and end-half in both.
C8_Original ==
    \A t, u \in Threads :
        (HasHalves(calls[t]) /\ HasHalves(calls[u]) /\ AdjacentCells(calls[t], calls[u])) =>
            \A s, r \in 0 .. 24 :
                SegmentCell(calls[t], s) = SegmentCell(calls[u], r) =>
                    /\ calls[t].segments[s] = calls[u].segments[r]
                    /\ calls[t].midPoints[s \div 5][s % 5] = calls[u].midPoints[r \div 5][r % 5]
                    /\ calls[t].segmentsBegin[s] = calls[u].segmentsBegin[r]
                    /\ calls[t].segmentsEnd[s] = calls[u].segmentsEnd[r]

\* The engine as construction left it
Constructed == [this EXCEPT !.m_pointCache = InitPointCache(this)]

\* C2: purity of queries.  Once the engine is constructed no step of any
\* query changes the point cache or a configuration field, and a query that
\* returns, however its steps were interleaved with those of other queries,
\* returns the value evaluate(x, y) has when run alone on the constructed engine.
C2_QueriesArePure ==
    [][pc = "ready" =>
          /\ m_pointCache' = m_pointCache
          /\ config' = config
          /\ \A t \in Threads :
                (calls[t].pc = "subPoints" /\ calls'[t].pc = "done") =>
                    calls'[t].result = Evaluate(Constructed, calls[t].x, calls[t].y)]_vars

\* A query has returned while another query for the same point, started
\* before that return, is still running
C2_Witness ==
    \E t, u \in Threads :
        /\ t # u
        /\ calls[t].pc = "done"
        /\ calls[u].pc = "subPoints"
        /\ calls[t].x = calls[u].x /\ calls[t].y = calls[u].y

\* Segments of the set that end where segment s starts, among those of `among`
Predecessors(segments, among, s) == {t \in among : segments[t].b = segments[s].a}

\* Segments of the set that start where segment s ends, among those of `among`
Successors(segments, among, s) == {t \in among : segments[t].a = segments[s].b}

\* The midpoint that the classification by single predecessor and single
\* successor gives segment s, the neighbours being searched in `among`
ClassifiedMidPoint(segments, among, s) ==
    LET a == segments[s].a
        b == segments[s].b
        preds == Predecessors(segments, among, s)
        succs == Successors(segments, among, s)
        p0 == IF Cardinality(preds) = 1
              THEN segments[CHOOSE t \in preds : TRUE].a
              ELSE Sub3(Scale3(2, a), b)
        p3 == IF Cardinality(succs) = 1
              THEN segments[CHOOSE t \in succs : TRUE].b
              ELSE Sub3(Scale3(2, b), a)
    IN  SubdivideCatmullRomSpline(p0, a, b, p3)

\* The halves of segment s of call c are cut at midpoint m
CutAt(c, s, m) ==
    /\ c.segmentsBegin[s] = Segment3D(c.segments[s].a, m)
    /\ c.segmentsEnd[s] = Segment3D(m, c.segments[s].b)
    /\ c.midPoints[s \div 5][s % 5] = ProjectionZ(m)

NonZeroLength(segments) == {t \in DOMAIN segments : segments[t].a # segments[t].b}

\* C11 as stated: every non-zero-length segment is cut at the midpoint of the
\* classification whose predecessors and successors are searched among all
\* 25 segments of the set.
C11_Original ==
    \A t \in Threads : HasHalves(calls[t]) =>
        \A s \in NonZeroLength(calls[t].segments) :
            CutAt(calls[t], s, ClassifiedMidPoint(calls[t].segments, 0 .. 24, s))

\* C11: spline classification, predecessors and successors being searched
\* among the non-zero-length segments of the set only.  Every non-zero-length
\* segment is cut at the Catmull-Rom value at 0.5 of (predecessor.start,
\* start, end, successor.end); the point 2*start - end stands for
\* predecessor.start when there is not exactly one predecessor, and
\* 2*end - start for successor.end when there is not exactly one successor.
C11_SplineClassification ==
    \A t \in Threads : HasHalves(calls[t]) =>
        \A s \in NonZeroLength(calls[t].segments) :
            CutAt(calls[t], s,
                  ClassifiedMidPoint(calls[t].segments, NonZeroLength(calls[t].segments), s))

\* A subdivided set holds non-zero-length segments of each kind: with one
\* predecessor and one successor, with a successor only, with a predecessor
\* only, with several predecessors, and one that ends at the start of a
\* zero-length segment of the set
C11_Witness ==
    \E t \in Threads :
        /\ HasHalves(calls[t])
        /\ LET segments == calls[t].segments
               moving == NonZeroLength(segments)
           IN  /\ \E s \in moving : SplineBranch(segments, s) = "both"
               /\ \E s \in moving : SplineBranch(segments, s) = "fakeStart"
               /\ \E s \in moving : SplineBranch(segments, s) = "fakeEnd"
               /\ \E s \in moving : Cardinality(Predecessors(segments, moving, s)) > 1
               /\ \E s \in moving : Successors(segments, 0 .. 24, s) \ moving # {}

\* The 50 half-segments of call c: the begin-halves, then the end-halves
HalfSegments(c) ==
    [h \in 0 .. 49 |-> IF h < 25 THEN c.segmentsBegin[h] ELSE c.segmentsEnd[h - 25]]

\* The half-segments at the least planar distance from p
NearestHalves(c, p) ==
    LET d == Value([h \in 0 .. 49 |-> DistToLineSegment(p, ProjectionZ2(HalfSegments(c)[h]))])
    IN  {h \in 0 .. 49 : \A o \in 0 .. 49 : d[h] <= d[o]}

\* The parameter at which p connects to half-segment half: the clamped
\* projection when the projection is <= 0 or >= 1, and
\* min(1, projection + distance / length) when it lies strictly between
ConnectionParameter(p, half) ==
    LET flat == ProjectionZ2(half)
        projection == PointLineProjection(p, flat)
        advanced == projection + (DistToLineSegment(p, flat) * UOne) \div Length(flat)
    IN  IF projection = NaN THEN NaN
        ELSE IF projection <= 0 THEN 0
        ELSE IF projection >= UOne THEN UOne
        ELSE IF advanced > UOne THEN UOne ELSE advanced

\* Sub-segment 3*(i-1) + (j-1) of call c starts at refined point (i, j) and ends
\* on one of the nearest half-segments, at its connection parameter, in [0, 1]
ConnectedToNearest(c, i, j) ==
    LET p == c.subPoints[i][j]
        seg == c.subSegments[3 * (i - 1) + (j - 1)]
    IN  \E h \in NearestHalves(c, p) :
            LET u == ConnectionParameter(p, HalfSegments(c)[h])
            IN  /\ u \in 0 .. UOne
                /\ seg.b = Lerp3(HalfSegments(c)[h], u)
                /\ seg.a = Point3D(p.x, p.y, seg.b.z)

\* Refined point (i, j) of call c has a zero-length half-segment among its nearest
NearestIsZeroLength(c, i, j) ==
    \E h \in NearestHalves(c, c.subPoints[i][j]) :
        ProjectionZ(HalfSegments(c)[h].a) = ProjectionZ(HalfSegments(c)[h].b)

SubSegmentsOnNonZeroLengthHalves ==
    \A t \in Threads : calls[t].pc = "done" =>
        /\ DOMAIN calls[t].subSegments = 0 .. 8
        /\ \A i, j \in 1 .. 3 :
              ~NearestIsZeroLength(calls[t], i, j) => ConnectedToNearest(calls[t], i, j)

\* A query has connected points by a clamped projection at 0, by an advanced
\* projection inside a half-segment and by one capped at 1
SubSegmentsOnNonZeroLengthHalves_Witness ==
    \E t \in Threads :
        /\ calls[t].pc = "done"
        /\ \A kind \in {"clamped", "advanced", "capped"} :
              \E i, j \in 1 .. 3 :
                  /\ ~NearestIsZeroLength(calls[t], i, j)
                  /\ \E h \in NearestHalves(calls[t], calls[t].subPoints[i][j]) :
                        LET p == calls[t].subPoints[i][j]
                            half == ProjectionZ2(HalfSegments(calls[t])[h])
                            projection == PointLineProjection(p, half)
                            u == ConnectionParameter(p, HalfSegments(calls[t])[h])
                        IN  CASE kind = "clamped" -> projection <= 0 \/ projection >= UOne
                              [] kind = "advanced" ->
                                    projection > 0 /\ projection < UOne /\ u < UOne /\ u > projection
                              [] kind = "capped" ->
                                    projection > 0 /\ projection < UOne /\ u = UOne

=============================================================================
